---- MODULE Spec2Model ----
(***************************************************************************)
(* A model of ohmoracle.py, a command line voltage divider calculator.     *)
(*                                                                         *)
(* Numbers.  Python floats are modelled by exact rationals <<n, d>> with   *)
(* d > 0 and gcd(n, d) = 1, so rounding is not modelled.  A resistor token *)
(* is a sequence of one-character strings.                                 *)
(***************************************************************************)
EXTENDS Integers, Sequences, FiniteSets

VARIABLES
    pc,            \* the statement of __main__ that runs next
    vin,           \* args.vin
    vout,          \* args.vout
    standard,      \* args.standard as typed on the command line
    csv,           \* args.csv as typed on the command line
    catalog,       \* the file --csv names: [exists, rows of cells]
    resistors,     \* the candidate list returned by get_arguments
    r2_list,       \* the ideal R2 values
    results,       \* the list of result dicts
    closest_match, \* <<the dict picked by find_closest_match>>, <<>> before
    stdout,        \* the lines printed so far
    exit_status,   \* the exit status of the process, -1 while it runs
    outcome,       \* how the run ended
    divisors,      \* the divisions executed so far: [line, divisor]
    token,         \* the argument of a single convert_value_shorthand call
    parsed,        \* the outcome of that call
    target,        \* the ideal R2 handed to a single snap step
    snapped        \* the value that snap step returned

vars == <<pc, vin, vout, standard, csv, catalog, resistors, r2_list, results,
          closest_match, stdout, exit_status, outcome, divisors,
          token, parsed, target, snapped>>

None == "None"

-----------------------------------------------------------------------------
(* Bounds of the model *)

MaxVolt == 3
MaxCells == 2
MaxTokLen == 3
MaxCand == 3
MaxHalves == 5
MaxResults == 3

SeqsUpTo(S, n) == UNION {[1..k -> S] : k \in 0..n}

-----------------------------------------------------------------------------
(* Exact rational arithmetic *)

Abs(x) == IF x < 0 THEN -x ELSE x

RECURSIVE GCD(_, _)
GCD(a, b) == IF b = 0 THEN a ELSE GCD(b, a % b)

Rat(n, d) ==
    LET g == GCD(Abs(n), Abs(d))
        s == IF d < 0 THEN -1 ELSE 1
    IN  <<(s * n) \div g, (s * d) \div g>>

RInt(n) == <<n, 1>>
RAdd(a, b) == Rat(a[1] * b[2] + b[1] * a[2], a[2] * b[2])
RSub(a, b) == Rat(a[1] * b[2] - b[1] * a[2], a[2] * b[2])
RMul(a, b) == Rat(a[1] * b[1], a[2] * b[2])
RDiv(a, b) == Rat(a[1] * b[2], a[2] * b[1])
RLt(a, b) == a[1] * b[2] < b[1] * a[2]
RLe(a, b) == a[1] * b[2] <= b[1] * a[2]
RAbs(a) == <<Abs(a[1]), a[2]>>
RZero == RInt(0)

\* int(x): truncation towards zero
int(x) == IF x[1] >= 0 THEN RInt(x[1] \div x[2]) ELSE RInt(-((-x[1]) \div x[2]))

\* math.floor, used only to state claims
Floor(x) == RInt(x[1] \div x[2])

-----------------------------------------------------------------------------
(* Strings *)

Digits == {"0", "1", "2", "3", "4", "5", "6", "7", "8", "9"}

DigitVal(c) ==
    CASE c = "0" -> 0 [] c = "1" -> 1 [] c = "2" -> 2 [] c = "3" -> 3
      [] c = "4" -> 4 [] c = "5" -> 5 [] c = "6" -> 6 [] c = "7" -> 7
      [] c = "8" -> 8 [] c = "9" -> 9

\* str.upper, on the letters the model's inputs use
UpperChar(c) ==
    CASE c = "a" -> "A" [] c = "e" -> "E" [] c = "k" -> "K" [] c = "m" -> "M"
      [] c = "x" -> "X" [] OTHER -> c

upper(s) == [i \in DOMAIN s |-> UpperChar(s[i])]

\* str.find(c) != -1
Contains(s, c) == \E i \in DOMAIN s : s[i] = c

\* str.strip(c): drops every leading and every trailing c
strip(s, c) ==
    LET keep == {i \in DOMAIN s : s[i] # c}
    IN  IF keep = {} THEN <<>>
        ELSE LET lo == CHOOSE i \in keep : \A j \in keep : i <= j
                 hi == CHOOSE i \in keep : \A j \in keep : j <= i
             IN  SubSeq(s, lo, hi)

\* str.replace(c, "", 1): drops the first c
replace_first(s, c) ==
    IF ~Contains(s, c) THEN s
    ELSE LET p == CHOOSE i \in DOMAIN s : s[i] = c /\ \A j \in 1..(i - 1) : s[j] # c
         IN  SubSeq(s, 1, p - 1) \o SubSeq(s, p + 1, Len(s))

\* str.isdigit
isdigit(s) == s # <<>> /\ \A i \in DOMAIN s : s[i] \in Digits

RECURSIVE DigitsValue(_)
DigitsValue(s) ==
    IF s = <<>> THEN 0
    ELSE 10 * DigitsValue(SubSeq(s, 1, Len(s) - 1)) + DigitVal(s[Len(s)])

RECURSIVE Pow10(_)
Pow10(k) == IF k = 0 THEN 1 ELSE 10 * Pow10(k - 1)

\* The unsigned decimal literals float() accepts: digits with at most one
\* point and at least one digit ("1", "1.", ".1", "1.1").
IsUnsignedDecimal(s) ==
    /\ \A i \in DOMAIN s : s[i] \in Digits \cup {"."}
    /\ Cardinality({i \in DOMAIN s : s[i] = "."}) <= 1
    /\ \E i \in DOMAIN s : s[i] \in Digits

UnsignedValue(s) ==
    LET ds == replace_first(s, ".")
        k  == IF Contains(s, ".")
              THEN Len(s) - (CHOOSE i \in DOMAIN s : s[i] = ".")
              ELSE 0
    IN  Rat(DigitsValue(ds), Pow10(k))

\* float(s) on the strings the model's alphabet can spell: an optional sign
\* followed by an unsigned decimal; anything else raises ValueError.
float_ok(s) ==
    /\ s # <<>>
    /\ IsUnsignedDecimal(IF s[1] \in {"-", "+"} THEN Tail(s) ELSE s)

float(s) ==
    IF s[1] = "-" THEN RSub(RZero, UnsignedValue(Tail(s)))
    ELSE IF s[1] = "+" THEN UnsignedValue(Tail(s))
    ELSE UnsignedValue(s)

-----------------------------------------------------------------------------
(* Constants of the program *)

E3 ==
    <<10, 22, 47>>

E6 ==
    <<10, 15, 22, 33, 47, 68>>

E12 ==
    <<10, 12, 15, 18, 22, 27, 33, 29, 47, 56, 68, 82>>

E24 ==
    <<10, 11, 12, 13, 15, 16, 18, 20, 22, 24, 27, 30, 33, 36, 39, 43, 47,
      51, 56, 62, 68, 75, 82, 91>>

E48 ==
    <<100, 105, 110, 115, 121, 127, 133, 140, 147, 154, 162, 169, 178, 187,
      196, 205, 215, 226, 237, 249, 261, 274, 287, 301, 316, 332, 348, 365,
      383, 402, 422, 442, 464, 487, 511, 536, 562, 590, 619, 649, 681, 715,
      750, 787, 825, 866, 909, 953>>

E96 ==
    <<100, 102, 105, 107, 110, 113, 115, 118, 121, 124, 127, 130, 133, 137,
      140, 143, 147, 150, 154, 158, 162, 165, 169, 174, 178, 182, 187, 191,
      196, 200, 205, 210, 215, 221, 226, 232, 237, 243, 249, 255, 261, 267,
      274, 280, 287, 294, 301, 309, 316, 324, 332, 340, 348, 357, 365, 374,
      383, 392, 402, 412, 422, 432, 442, 453, 464, 475, 487, 499, 511, 523,
      536, 549, 562, 576, 590, 604, 619, 634, 649, 665, 681, 698, 715, 732,
      750, 768, 787, 806, 825, 845, 866, 887, 909, 931, 953, 976>>

E192 ==
    <<100, 101, 102, 104, 105, 106, 107, 109, 110, 111, 113, 114, 115, 117,
      118, 120, 121, 123, 124, 126, 127, 129, 130, 132, 133, 135, 137, 138,
      140, 142, 143, 145, 147, 149, 150, 152, 154, 156, 158, 160, 162, 164,
      165, 167, 169, 172, 174, 176, 178, 180, 182, 184, 187, 189, 191, 193,
      196, 198, 200, 203, 205, 208, 210, 213, 215, 218, 221, 223, 226, 229,
      232, 234, 237, 240, 243, 246, 249, 252, 255, 258, 261, 264, 267, 271,
      274, 277, 280, 284, 287, 291, 294, 298, 301, 305, 309, 312, 316, 320,
      324, 328, 332, 336, 340, 344, 348, 352, 357, 361, 365, 370, 374, 379,
      383, 388, 392, 397, 402, 407, 412, 417, 422, 427, 432, 437, 442, 448,
      453, 459, 464, 470, 475, 481, 487, 493, 499, 505, 511, 517, 523, 530,
      536, 542, 549, 556, 562, 569, 576, 583, 590, 597, 604, 612, 619, 626,
      634, 642, 649, 657, 665, 673, 681, 690, 698, 706, 715, 723, 732, 741,
      750, 759, 768, 777, 787, 796, 806, 816, 825, 835, 845, 856, 866, 876,
      887, 898, 909, 920, 931, 942, 953, 965, 976, 988>>

StandardKeys ==
    {<<"E", "3">>, <<"E", "6">>, <<"E", "1", "2">>, <<"E", "2", "4">>,
     <<"E", "4", "8">>, <<"E", "9", "6">>, <<"E", "1", "9", "2">>}

STANDARD_RESISTORS(name) ==
    LET ints == CASE name = <<"E", "3">> -> E3
                  [] name = <<"E", "6">> -> E6
                  [] name = <<"E", "1", "2">> -> E12
                  [] name = <<"E", "2", "4">> -> E24
                  [] name = <<"E", "4", "8">> -> E48
                  [] name = <<"E", "9", "6">> -> E96
                  [] name = <<"E", "1", "9", "2">> -> E192
    IN  [i \in DOMAIN ints |-> RInt(ints[i])]

ShorthandKeys == <<"K", "M">>

SHORTHAND_MULTIPIERS(shorthand) ==
    CASE shorthand = "K" -> 1000 [] shorthand = "M" -> 1000000

-----------------------------------------------------------------------------
(* convert_value_shorthand *)

Value(v) == [kind |-> "value", val |-> v]
Exit(e) == [kind |-> e, val |-> RZero]

\* The body of the loop for one shorthand that the token contains.
convert_with(value, shorthand) ==
    LET text == strip(upper(value), shorthand)
    IN  IF float_ok(text)
        THEN Value(RMul(float(text), RInt(SHORTHAND_MULTIPIERS(shorthand))))
        ELSE Exit("ValueError")

convert_value_shorthand(value) ==
    IF Contains(upper(value), ShorthandKeys[1])
    THEN convert_with(value, ShorthandKeys[1])
    ELSE IF Contains(upper(value), ShorthandKeys[2])
    THEN convert_with(value, ShorthandKeys[2])
    ELSE IF isdigit(replace_first(value, "."))
    THEN Value(float(value))
    ELSE Exit("InvalidValueError")

-----------------------------------------------------------------------------
(* file_to_resistor_list *)

RECURSIVE Flatten(_)
Flatten(rows) ==
    IF rows = <<>> THEN <<>> ELSE Head(rows) \o Flatten(Tail(rows))

\* The two nested loops: every cell of every row is converted and appended;
\* the first cell that does not convert ends the run.
RECURSIVE convert_cells(_, _)
convert_cells(cells, resistor_list) ==
    IF cells = <<>> THEN [kind |-> "value", list |-> resistor_list]
    ELSE LET c == convert_value_shorthand(Head(cells))
         IN  IF c.kind = "value"
             THEN convert_cells(Tail(cells), Append(resistor_list, c.val))
             ELSE [kind |-> c.kind, list |-> <<>>]

\* filename is "" when --csv was not given; file is the file of that name:
\* whether it exists and the rows csv.reader yields for it.
file_to_resistor_list(filename, file) ==
    IF filename = "" THEN [kind |-> None, list |-> <<>>]
    ELSE IF ~file.exists THEN [kind |-> "CatalogNotFoundError", list |-> <<>>]
    ELSE LET r == convert_cells(Flatten(file.rows), <<>>)
         IN  IF r.kind = "value" /\ r.list = <<>>
             THEN [kind |-> "EmptyCatalogError", list |-> <<>>]
             ELSE r

-----------------------------------------------------------------------------
(* Output and termination *)

Line(kind, key, value) == [kind |-> kind, key |-> key, value |-> value]

ErrorText(e) ==
    CASE e = "InvalidValueError" -> "is not a valid resistor value!"
      [] e = "CatalogNotFoundError" -> "was not found!"
      [] e = "EmptyCatalogError" -> "is empty! Add some resistor values."
      [] e = "InvalidStandardNameError" -> "is not a vaild standard E series name"
      [] e = "VinEqualsVout" -> "Vin and Vout cannot be equal!"
      [] e = "VoutAboveVin" -> "Vout cannot be greater than Vin!"

\* The error outcome of the specification that a message of error() stands for
ErrorOutcome(e) ==
    IF e \in {"VinEqualsVout", "VoutAboveVin"} THEN "InvalidVoltageRangeError" ELSE e

\* exit() without an argument ends the process with status 0
error_exit_status == 0

\* error(message): one line on stdout, then exit()
error(e) ==
    /\ stdout' = Append(stdout, Line("error", ErrorText(e), RZero))
    /\ exit_status' = error_exit_status
    /\ outcome' = ErrorOutcome(e)
    /\ pc' = "exited"

\* An exception nobody catches: a traceback on stderr, exit status 1
Unhandled(e) ==
    /\ stdout' = stdout
    /\ exit_status' = 1
    /\ outcome' = e
    /\ pc' = "exited"

Terminate(kind) ==
    IF kind \in {"ValueError", "ZeroDivisionError", "IndexError"}
    THEN Unhandled(kind)
    ELSE error(kind)

-----------------------------------------------------------------------------
(* get_arguments *)

\* select_resistors with the test of user_csv turned around
select_resistors_inverted(std, user_csv) ==
    IF user_csv.kind # None THEN STANDARD_RESISTORS(std) ELSE user_csv.list

\* The candidate list of the return statement
select_resistors(std, user_csv) ==
    IF user_csv.kind = None THEN STANDARD_RESISTORS(std) ELSE user_csv.list

main_get_arguments ==
    /\ pc = "get_arguments"
    /\ LET std == upper(standard)
       IN  IF std \notin StandardKeys
           THEN /\ Terminate("InvalidStandardNameError")
                /\ UNCHANGED resistors
           ELSE LET user_csv == file_to_resistor_list(csv, catalog)
                IN  IF user_csv.kind \notin {"value", None}
                    THEN /\ Terminate(user_csv.kind)
                         /\ UNCHANGED resistors
                    ELSE /\ resistors' = select_resistors(std, user_csv)
                         /\ pc' = "generate_r2_list"
                         /\ UNCHANGED <<stdout, exit_status, outcome>>
    /\ UNCHANGED <<vin, vout, standard, csv, catalog, r2_list, results,
                   closest_match, divisors, token, parsed, target, snapped>>

-----------------------------------------------------------------------------
(* generate_r2_list *)

\* voltage_check without the test for equal voltages
voltage_check_unequal(vi, vo) ==
    IF RLt(vi, vo) THEN "VoutAboveVin" ELSE "ok"

\* The two tests ahead of the loop
voltage_check(vi, vo) ==
    IF vi = vo THEN "VinEqualsVout"
    ELSE IF RLt(vi, vo) THEN "VoutAboveVin"
    ELSE "ok"

\* The loop body; the caller has made sure that vi - vo is not zero
solve_r2(vi, vo, r1) == RDiv(RMul(vi, r1), RSub(vi, vo))

generate_r2_list(vi, vo, r1_list) ==
    [i \in DOMAIN r1_list |-> solve_r2(vi, vo, r1_list[i])]

Division(line, divisor) == [line |-> line, divisor |-> divisor]

main_generate_r2_list ==
    /\ pc = "generate_r2_list"
    /\ LET check == voltage_check(vin, vout)
       IN  IF check # "ok"
           THEN /\ Terminate(check)
                /\ UNCHANGED <<r2_list, divisors>>
           ELSE IF resistors = <<>>
           THEN /\ r2_list' = <<>>
                /\ pc' = "find_approximations"
                /\ UNCHANGED <<stdout, exit_status, outcome, divisors>>
           ELSE IF RSub(vin, vout) = RZero
           THEN /\ Terminate("ZeroDivisionError")
                /\ divisors' = divisors \cup {Division(111, RZero)}
                /\ UNCHANGED r2_list
           ELSE /\ r2_list' = generate_r2_list(vin, vout, resistors)
                /\ divisors' = divisors \cup {Division(111, RSub(vin, vout))}
                /\ pc' = "find_approximations"
                /\ UNCHANGED <<stdout, exit_status, outcome>>
    /\ UNCHANGED <<vin, vout, standard, csv, catalog, resistors, results,
                   closest_match, token, parsed, target, snapped>>

-----------------------------------------------------------------------------
(* closest_resistor *)

\* The loop from its k-th pass on, closest being the value found so far
RECURSIVE closest_scan(_, _, _, _)
closest_scan(rs, ohms, k, closest) ==
    IF k > Len(rs) THEN closest
    ELSE IF RLt(ohms, rs[k]) THEN closest_scan(rs, ohms, k + 1, closest)
    ELSE IF RLt(RSub(ohms, rs[k]), RSub(ohms, closest))
    THEN closest_scan(rs, ohms, k + 1, rs[k])
    ELSE closest_scan(rs, ohms, k + 1, closest)

\* closest_scan without the test that skips the values above ohms
RECURSIVE closest_scan_unfiltered(_, _, _, _)
closest_scan_unfiltered(rs, ohms, k, closest) ==
    IF k > Len(rs) THEN closest
    ELSE IF RLt(RSub(ohms, rs[k]), RSub(ohms, closest))
    THEN closest_scan_unfiltered(rs, ohms, k + 1, rs[k])
    ELSE closest_scan_unfiltered(rs, ohms, k + 1, closest)

closest_resistor_unfiltered(rs, ohms) == closest_scan_unfiltered(rs, ohms, 1, RZero)

closest_resistor(rs, ohms) == closest_scan(rs, ohms, 1, RZero)

\* The snap step of find_approximations: closest_resistor(resistors, int(r2))
snap(rs, r2) == closest_resistor(rs, int(r2))

-----------------------------------------------------------------------------
(* find_approximations *)

\* The k-th pass of the inner loop body, r1 outer and r2 inner
PairR1(rs, r2s, k) == rs[((k - 1) \div Len(r2s)) + 1]
PairR2(rs, r2s, k) == snap(rs, r2s[((k - 1) % Len(r2s)) + 1])
PairDivisor(rs, r2s, k) == RAdd(PairR1(rs, r2s, k), PairR2(rs, r2s, k))

\* The dict appended by a pass in which neither division fails
divider_result(vi, vo, r1, r2_closest) ==
    LET vout_closest == RDiv(RMul(vi, r2_closest), RAdd(r1, r2_closest))
        vout_error == RMul(RDiv(RSub(vout_closest, vo), vo), RInt(100))
    IN  [r1 |-> r1, r2 |-> r2_closest, vout |-> vout_closest, error |-> vout_error]

find_approximations(vi, vo, r2s, rs) ==
    [k \in 1..(Len(rs) * Len(r2s)) |->
        divider_result(vi, vo, PairR1(rs, r2s, k), PairR2(rs, r2s, k))]

\* The passes that raise ZeroDivisionError, in the first or the second division
FailingPasses(vo, r2s, rs) ==
    {k \in 1..(Len(rs) * Len(r2s)) : PairDivisor(rs, r2s, k) = RZero \/ vo = RZero}

\* The divisions executed by passes 1..n; the second division of a pass is
\* not reached when its first one fails.
DivisionsUpTo(vo, r2s, rs, n) ==
    UNION {{Division(122, PairDivisor(rs, r2s, k))}
             \cup (IF PairDivisor(rs, r2s, k) = RZero THEN {}
                   ELSE {Division(123, vo)}) : k \in 1..n}

main_find_approximations ==
    /\ pc = "find_approximations"
    /\ LET failing == FailingPasses(vout, r2_list, resistors)
       IN  IF failing # {}
           THEN LET k == CHOOSE a \in failing : \A b \in failing : a <= b
                IN  /\ Terminate("ZeroDivisionError")
                    /\ divisors' = divisors \cup DivisionsUpTo(vout, r2_list, resistors, k)
                    /\ UNCHANGED results
           ELSE /\ results' = find_approximations(vin, vout, r2_list, resistors)
                /\ divisors' = divisors \cup
                       DivisionsUpTo(vout, r2_list, resistors, Len(resistors) * Len(r2_list))
                /\ pc' = "find_closest_match"
                /\ UNCHANGED <<stdout, exit_status, outcome>>
    /\ UNCHANGED <<vin, vout, standard, csv, catalog, resistors, r2_list,
                   closest_match, token, parsed, target, snapped>>

-----------------------------------------------------------------------------
(* find_closest_match *)

Distance(result, vo) == RAbs(RSub(result.vout, vo))

\* The passes lo..hi of the loop, closest_match being rs[c] before them: the
\* index of closest_match after them.  The passes run in order, lo..mid and
\* then mid+1..hi.  Halving the range, and looking at the index the first
\* half leaves before the second half starts, keeps the evaluation shallow;
\* that index is always one of rs.
RECURSIVE match_scan(_, _, _, _, _)
match_scan(rs, vo, lo, hi, c) ==
    IF lo > hi THEN c
    ELSE IF lo = hi
    THEN IF RLt(Distance(rs[lo], vo), Distance(rs[c], vo)) THEN lo ELSE c
    ELSE LET mid == (lo + hi) \div 2
             first == match_scan(rs, vo, lo, mid, c)
         IN  IF first \in DOMAIN rs
             THEN match_scan(rs, vo, mid + 1, hi, first)
             ELSE first

\* match_scan with >= in place of >: a later result replaces an equally close one
RECURSIVE match_scan_last(_, _, _, _, _)
match_scan_last(rs, vo, lo, hi, c) ==
    IF lo > hi THEN c
    ELSE IF lo = hi
    THEN IF RLe(Distance(rs[lo], vo), Distance(rs[c], vo)) THEN lo ELSE c
    ELSE LET mid == (lo + hi) \div 2
             first == match_scan_last(rs, vo, lo, mid, c)
         IN  IF first \in DOMAIN rs
             THEN match_scan_last(rs, vo, mid + 1, hi, first)
             ELSE first

find_closest_match_last(vo, rs) == rs[match_scan_last(rs, vo, 1, Len(rs), 1)]

\* results is not empty
find_closest_match(vo, rs) == rs[match_scan(rs, vo, 1, Len(rs), 1)]

main_find_closest_match ==
    /\ pc = "find_closest_match"
    /\ IF results = <<>>
       THEN /\ Terminate("IndexError")
            /\ UNCHANGED closest_match
       ELSE /\ closest_match' = <<find_closest_match(vout, results)>>
            /\ pc' = "print_table"
            /\ UNCHANGED <<stdout, exit_status, outcome>>
    /\ UNCHANGED <<vin, vout, standard, csv, catalog, resistors, r2_list,
                   results, divisors, token, parsed, target, snapped>>

-----------------------------------------------------------------------------
(* print_table; the widths of the columns are not modelled *)

print_table(match) ==
    << Line("header", "Parameter", RZero),
       Line("rule", "-", RZero),
       Line("row", "R1", match.r1),
       Line("row", "R2", match.r2),
       Line("row", "Vout", match.vout),
       Line("row", "Error", match.error) >>

main_print_table ==
    /\ pc = "print_table"
    /\ stdout' = stdout \o print_table(closest_match[1])
    /\ exit_status' = 0
    /\ outcome' = "ok"
    /\ pc' = "exited"
    /\ UNCHANGED <<vin, vout, standard, csv, catalog, resistors, r2_list,
                   results, closest_match, divisors, token, parsed, target,
                   snapped>>

-----------------------------------------------------------------------------
(* The whole program: __main__ *)

Volts == {RInt(v) : v \in 0..MaxVolt}

\* --standard: the default, a lower-case name, an unsorted series, no series
StandardArgs == {<<"E", "6">>, <<"e", "3">>, <<"E", "1", "2">>, <<"E", "7">>}

\* The cells of a catalog file: zero, values, a value with a shorthand, and
\* text that is no number
CatalogTokens == {<<"0">>, <<"2">>, <<"3">>, <<"1", "k">>, <<"x">>}

RECURSIVE Sum(_)
Sum(s) == IF s = <<>> THEN 0 ELSE Head(s) + Sum(Tail(s))

\* The rows of the given widths that hold the given cells in order
RECURSIVE Rows(_, _)
Rows(cells, widths) ==
    IF widths = <<>> THEN <<>>
    ELSE <<SubSeq(cells, 1, Head(widths))>>
            \o Rows(SubSeq(cells, Head(widths) + 1, Len(cells)), Tail(widths))

\* The widths of the rows of a file: at most MaxCells rows, which may be
\* empty, of at most MaxCells cells in all
Layouts == {w \in SeqsUpTo(0..MaxCells, MaxCells) : Sum(w) <= MaxCells}

CatalogFiles ==
    {[exists |-> FALSE, rows |-> <<>>]}
      \cup UNION {{[exists |-> TRUE, rows |-> Rows(cells, w)] :
                      cells \in [1..Sum(w) -> CatalogTokens]} : w \in Layouts}

NoFile == [exists |-> FALSE, rows |-> <<>>]
NotParsed == [kind |-> "none", val |-> RZero]

Idle ==
    /\ resistors = <<>>
    /\ r2_list = <<>>
    /\ results = <<>>
    /\ closest_match = <<>>
    /\ stdout = <<>>
    /\ exit_status = -1
    /\ outcome = "running"
    /\ divisors = {}

Init ==
    /\ pc = "get_arguments"
    /\ vin \in Volts
    /\ vout \in Volts
    /\ standard \in StandardArgs
    /\ \/ csv = "" /\ catalog = NoFile
       \/ csv = "catalog.csv" /\ catalog \in CatalogFiles
    /\ Idle
    /\ token = <<>>
    /\ parsed = NotParsed
    /\ target = RZero
    /\ snapped = RZero

Next ==
    \/ main_get_arguments
    \/ main_generate_r2_list
    \/ main_find_approximations
    \/ main_find_closest_match
    \/ main_print_table

Spec == Init /\ [][Next]_vars

-----------------------------------------------------------------------------
(* convert_value_shorthand on its own, over every short token *)

Alphabet == {"1", ".", "-", "K", "k", "M", "a"}

InitParse ==
    /\ pc = "convert_value_shorthand"
    /\ token \in SeqsUpTo(Alphabet, MaxTokLen)
    /\ parsed = NotParsed
    /\ vin = RZero
    /\ vout = RZero
    /\ standard = <<"E", "6">>
    /\ csv = ""
    /\ catalog = NoFile
    /\ Idle
    /\ target = RZero
    /\ snapped = RZero

call_convert_value_shorthand ==
    /\ pc = "convert_value_shorthand"
    /\ parsed' = convert_value_shorthand(token)
    /\ IF parsed'.kind = "value"
       THEN /\ pc' = "converted"
            /\ UNCHANGED <<stdout, exit_status, outcome>>
       ELSE Terminate(parsed'.kind)
    /\ UNCHANGED <<vin, vout, standard, csv, catalog, resistors, r2_list,
                   results, closest_match, divisors, token, target, snapped>>

NextParse == call_convert_value_shorthand

SpecParse == InitParse /\ [][NextParse]_vars

-----------------------------------------------------------------------------
(* The snap step on its own, over short candidate lists of half ohms *)

Halves == {Rat(k, 2) : k \in 0..MaxHalves}

InitSnap ==
    /\ pc = "snap"
    /\ resistors \in SeqsUpTo(Halves, MaxCand) \ {<<>>}
    /\ target \in {Rat(k, 2) : k \in 0..(MaxHalves + 2)}
    /\ snapped = RZero
    /\ vin = RZero
    /\ vout = RZero
    /\ standard = <<"E", "6">>
    /\ csv = "catalog.csv"
    /\ catalog = NoFile
    /\ r2_list = <<>>
    /\ results = <<>>
    /\ closest_match = <<>>
    /\ stdout = <<>>
    /\ exit_status = -1
    /\ outcome = "running"
    /\ divisors = {}
    /\ token = <<>>
    /\ parsed = NotParsed

call_snap ==
    /\ pc = "snap"
    /\ snapped' = snap(resistors, target)
    /\ pc' = "snapped"
    /\ UNCHANGED <<vin, vout, standard, csv, catalog, resistors, r2_list,
                   results, closest_match, stdout, exit_status, outcome,
                   divisors, token, parsed, target>>

NextSnap == call_snap

SpecSnap == InitSnap /\ [][NextSnap]_vars

-----------------------------------------------------------------------------
(* find_closest_match on its own, over short result lists *)

SomeResults ==
    {[r1 |-> RInt(a), r2 |-> RInt(1), vout |-> Rat(k, 2), error |-> RZero] :
        a \in 1..2, k \in 0..MaxHalves}

InitPick ==
    /\ pc = "find_closest_match"
    /\ results \in SeqsUpTo(SomeResults, MaxResults) \ {<<>>}
    /\ vout \in Volts
    /\ vin = RInt(MaxVolt + 1)
    /\ standard = <<"E", "6">>
    /\ csv = ""
    /\ catalog = NoFile
    /\ resistors = <<>>
    /\ r2_list = <<>>
    /\ closest_match = <<>>
    /\ stdout = <<>>
    /\ exit_status = -1
    /\ outcome = "running"
    /\ divisors = {}
    /\ token = <<>>
    /\ parsed = NotParsed
    /\ target = RZero
    /\ snapped = RZero

NextPick == main_find_closest_match

SpecPick == InitPick /\ [][NextPick]_vars

-----------------------------------------------------------------------------
(* Properties *)

Positive(x) == RLt(RZero, x)

Ran(s) == {s[i] : i \in DOMAIN s}

\* The output voltage of the divider r1, r2 across vi; r1 + r2 is not zero
DividerVout(vi, r1, r2) == RDiv(RMul(vi, r2), RAdd(r1, r2))

TableLines == {i \in DOMAIN stdout : stdout[i].kind # "error"}
ErrorLines == {i \in DOMAIN stdout : stdout[i].kind = "error"}

\* C1: for vin > vout > 0 and a candidate r1 > 0, the ideal R2 computed for r1
\* gives exactly the target in the divider equation:
\* vin * R2 = vout * (r1 + R2).
C1_IdealR2YieldsTarget ==
    \A i \in DOMAIN r2_list :
        (RLt(vout, vin) /\ Positive(vout) /\ Positive(resistors[i]))
            => RMul(vin, r2_list[i]) = RMul(vout, RAdd(resistors[i], r2_list[i]))

\* C2: for vin > vout > 0 and positive candidates, the reported pair is at
\* least as close to the target as every pair (r1, r2) drawn from the
\* candidates.
C2_ReportedPairIsClosestOfAll ==
    (/\ closest_match # <<>>
     /\ RLt(vout, vin) /\ Positive(vout)
     /\ \A r \in Ran(resistors) : Positive(r))
        => \A r1 \in Ran(resistors), r2 \in Ran(resistors) :
               RLe(Distance(closest_match[1], vout),
                   RAbs(RSub(DividerVout(vin, r1, r2), vout)))

\* The tokens the specification accepts: a plain non-negative decimal number,
\* or one immediately followed by exactly one suffix K or M in either case
ValidToken(t) ==
    \/ IsUnsignedDecimal(t)
    \/ /\ Len(t) >= 2
       /\ UpperChar(t[Len(t)]) \in {"K", "M"}
       /\ IsUnsignedDecimal(SubSeq(t, 1, Len(t) - 1))

\* C3: every token that is not a valid one ends in the InvalidValueError
\* outcome: it returns no value and ends in no other fault.
C3_InvalidTokenRejected ==
    (parsed.kind # "none" /\ ~ValidToken(token))
        => (parsed.kind = "InvalidValueError" /\ outcome = "InvalidValueError")

AtMostFloor(c) == RLe(c, Floor(target))

SnapIsLargestAtMostFloor ==
    /\ snapped \in Ran(resistors)
    /\ AtMostFloor(snapped)
    /\ \A c \in Ran(resistors) : AtMostFloor(c) => RLe(c, snapped)

\* C4 as stated: for a target at or above the smallest candidate, the snap
\* step returns a candidate that is at most floor(target) and at least every
\* other candidate that is at most floor(target).
C4_SnapOfTargetAboveMinimum ==
    (pc = "snapped" /\ \E c \in Ran(resistors) : RLe(c, target))
        => SnapIsLargestAtMostFloor

\* C4 as amended: the same, for a target whose floor is at or above the
\* smallest candidate.
C4_SnapOfFloorAboveMinimum ==
    (pc = "snapped" /\ \E c \in Ran(resistors) : AtMostFloor(c))
        => SnapIsLargestAtMostFloor

\* C4's case: an unsorted list with a fractional value that cannot be
\* picked, snapped to a candidate
C4_Witness ==
    /\ pc = "snapped"
    /\ Len(resistors) >= 2
    /\ RLt(resistors[2], resistors[1])
    /\ \E c \in Ran(resistors) : c[2] = 2 /\ RLe(c, target) /\ ~AtMostFloor(c)
    /\ \E c \in Ran(resistors) : AtMostFloor(c)
    /\ Positive(snapped)

Closest(i) == \A j \in DOMAIN results :
                  RLe(Distance(results[i], vout), Distance(results[j], vout))

\* C5: find_closest_match returns the element of the list whose distance
\* |vout - target| is least, the one of smallest index when several are
\* equally close, and leaves the list as it was.
C5_FirstClosestIsPicked ==
    /\ [](closest_match # <<>> =>
            \E i \in DOMAIN results :
                /\ closest_match[1] = results[i]
                /\ Closest(i)
                /\ \A j \in 1..(i - 1) : ~Closest(j))
    /\ [][results' = results]_vars

\* C5's case: two different results are equally close, and the earlier one,
\* which is not the head of the list, was picked
C5_Witness ==
    /\ closest_match # <<>>
    /\ \E i, j \in DOMAIN results :
          /\ 1 < i /\ i < j
          /\ Closest(i) /\ Closest(j) /\ ~Closest(1)
          /\ results[i] # results[j]
          /\ closest_match[1] = results[i]

ValidationFailures ==
    {"InvalidValueError", "CatalogNotFoundError", "EmptyCatalogError",
     "InvalidStandardNameError", "InvalidVoltageRangeError"}

\* C7: a run that ends in a validation or parsing failure has printed exactly
\* one error message and no table, and its exit status is not zero.
C7_FailureExitsNonZero ==
    (pc = "exited" /\ outcome \in ValidationFailures)
        => /\ Cardinality(ErrorLines) = 1
           /\ TableLines = {}
           /\ exit_status # 0

\* C8: with a target of zero and vin > 0 the run does not end in an
\* unhandled division by zero.
C8_ZeroTargetHandled ==
    (vout = RZero /\ Positive(vin)) => outcome # "ZeroDivisionError"

Cells == Flatten(catalog.rows)

CatalogParses ==
    /\ csv # ""
    /\ catalog.exists
    /\ Cells # <<>>
    /\ \A i \in DOMAIN Cells : convert_value_shorthand(Cells[i]).kind = "value"

CatalogValues == [i \in DOMAIN Cells |-> convert_value_shorthand(Cells[i]).val]

DefaultSeries == [i \in DOMAIN E6 |-> RInt(E6[i])]

\* C9 as stated: a catalog that parses to at least one value is the candidate
\* list whatever the series flag holds, and without catalog and series flag
\* the candidate list is E6.
C9_CatalogOverridesSeries ==
    pc # "get_arguments" =>
        /\ CatalogParses => (resistors = CatalogValues /\ outcome # "InvalidStandardNameError")
        /\ (csv = "" /\ standard = <<"E", "6">>) => resistors = DefaultSeries

\* C9 as amended: the same whenever the series flag names one of the seven
\* series, in either case of its letter; a flag that names none ends the run
\* in InvalidStandardNameError, with or without a catalog.
C9_CatalogOverridesKnownSeries ==
    pc # "get_arguments" =>
        /\ (CatalogParses /\ upper(standard) \in StandardKeys)
              => (resistors = CatalogValues /\ outcome \notin ValidationFailures \ {"InvalidVoltageRangeError"})
        /\ upper(standard) \notin StandardKeys
              => (outcome = "InvalidStandardNameError" /\ resistors = <<>>)
        /\ (csv = "" /\ standard = <<"E", "6">>) => resistors = DefaultSeries

\* C9's case: a catalog of two different values was read while the flag
\* named another series than the default
C9_Witness ==
    /\ pc # "get_arguments"
    /\ CatalogParses
    /\ standard = <<"e", "3">>
    /\ Len(Cells) >= 2
    /\ Cells[1] # Cells[2]
    /\ resistors = CatalogValues

\* C10: find_approximations never divides by r1 + r2_snapped = 0, and a
\* result whose R2 is the sentinel 0 has vout = 0.
C10_SentinelNeverDividesByZero ==
    /\ \A d \in divisors : d.line = 122 => d.divisor # RZero
    /\ \A i \in DOMAIN results : results[i].r2 = RZero => results[i].vout = RZero

====
